---- MODULE Spec2Model ----
(***************************************************************************)
(* Model of src/src/main.rs: the per-repository pipeline `process`         *)
(* (access check, stale-workspace delete, clone, compile, walk with        *)
(* per-file bytecode extraction, aggregation, workspace delete), the       *)
(* recursive walk `process_contents` and the extractor `get_bytecode`.     *)
(*                                                                         *)
(* Strings whose characters the code inspects (file names) are sequences   *)
(* of one-character strings.  A URL is a sequence of tokens in which "/"   *)
(* is the separator character and every other token is a run of            *)
(* non-separator characters.  Option<T> is a sequence of length 0 (None)   *)
(* or 1 (Some).                                                            *)
(***************************************************************************)
EXTENDS Integers, Sequences, FiniteSets, TLC

VARIABLES
    target_repos,   \* argument of process: the list of repository URLs
    remote,         \* the listing API's content: repository name -> tree
    workspaces,     \* names of the directories that exist under ./repos
    pc,             \* position of process
    idx,            \* position of the `for contest in target_repos` loop
    owner,          \* parts[3] of the current URL
    repo,           \* parts[4] of the current URL
    response,       \* Option: the response of the root listing request
    stack,          \* call stack of process_contents, innermost frame last
    repo_results,   \* process's local: what the outermost walk returned
    all_results,    \* process's accumulator
    returned,       \* Option: the value process returned with Ok
    events          \* history: the external calls made for the current
                    \* element of target_repos, in order

vars == <<target_repos, remote, workspaces, pc, idx, owner, repo, response,
          stack, repo_results, all_results, returned, events>>

---------------------------------------------------------------------------
(* Bounds *)

\* length of target_repos
MaxRepos == 2
\* pieces a generated file name is made of
MaxPieces == 3
\* depth of the deepest generated listing tree
MaxDepth == 4

---------------------------------------------------------------------------
(* Option and string helpers (Rust std) *)

None == <<>>
Some(x) == <<x>>

\* str::ends_with
ends_with(s, suf) ==
    /\ Len(s) >= Len(suf)
    /\ SubSeq(s, Len(s) - Len(suf) + 1, Len(s)) = suf

\* str::contains
contains(s, pat) ==
    \E i \in 1..(Len(s) - Len(pat) + 1) : SubSeq(s, i, i + Len(pat) - 1) = pat

\* str::strip_suffix
strip_suffix(s, suf) ==
    IF ends_with(s, suf) THEN Some(SubSeq(s, 1, Len(s) - Len(suf))) ELSE None

\* str::split('/') followed by collect(): the segments between separators,
\* empty segments included
RECURSIVE SplitFrom(_, _, _)
SplitFrom(url, i, cur) ==
    IF i > Len(url) THEN <<cur>>
    ELSE IF url[i] = "/" THEN <<cur>> \o SplitFrom(url, i + 1, "")
    ELSE SplitFrom(url, i + 1, cur \o url[i])

\* a split that drops the empty segments
splitSkippingEmpty(url) ==
    SelectSeq(SplitFrom(url, 1, ""), LAMBDA seg : seg # "")

split(url) == SplitFrom(url, 1, "")

\* String::from_utf8_lossy(..).into_owned(): every invalid byte sequence
\* becomes U+FFFD, valid text is kept
from_utf8_lossy(bytes) ==
    [k \in 1..Len(bytes) |-> IF bytes[k] = "\\xFF" THEN "U+FFFD" ELSE bytes[k]]

---------------------------------------------------------------------------
(* File names *)

DOT_SOL   == <<".", "s", "o", "l">>
DOT_T_SOL == <<".", "t", ".", "s", "o", "l">>
DOT_S_SOL == <<".", "s", ".", "s", "o", "l">>
TEST      == <<"T", "e", "s", "t">>

A_sol         == <<"A">> \o DOT_SOL
B_sol         == <<"B">> \o DOT_SOL
B_t_sol       == <<"B">> \o DOT_T_SOL
Token_sol     == <<"T", "o", "k", "e", "n">> \o DOT_SOL
Token_t_sol   == <<"T", "o", "k", "e", "n">> \o DOT_T_SOL
DeployToken_s_sol == <<"D", "e", "p", "l", "o", "y", "T", "o", "k", "e", "n">> \o DOT_S_SOL
TestToken_sol == TEST \o Token_sol
token_sol_bak == <<"t", "o", "k", "e", "n">> \o DOT_SOL \o <<".", "b", "a", "k">>

\* the filter looking for ".sol" anywhere in the name
isEligibleSolAnywhere(name) ==
    /\ contains(name, DOT_SOL)
    /\ ~ends_with(name, DOT_T_SOL)
    /\ ~ends_with(name, DOT_S_SOL)
    /\ ~contains(name, TEST)

\* the filter without its script-suffix test
isEligibleAcceptingScripts(name) ==
    /\ ends_with(name, DOT_SOL)
    /\ ~ends_with(name, DOT_T_SOL)
    /\ ~contains(name, TEST)

\* the condition of the `if` that guards get_bytecode
isEligible(name) ==
    /\ ends_with(name, DOT_SOL)
    /\ ~ends_with(name, DOT_T_SOL)
    /\ ~ends_with(name, DOT_S_SOL)
    /\ ~contains(name, TEST)

---------------------------------------------------------------------------
(* Listings: RepoContent keeps _type, name and path of a JSON entry *)

Entry(t, n, p) == [_type |-> t, name |-> n, path |-> p]
File(n, p) == Entry(Some("file"), Some(n), Some(p))
Dir(p)     == Entry(Some("dir"), Some(p), Some(p))

\* A tree maps a directory path ("" is the root) to its listing.
TreeExample ==
    [p \in {"", "lib"} |->
        IF p = "" THEN <<File(A_sol, "A.sol"), Dir("lib")>>
        ELSE <<File(B_sol, "lib/B.sol"), File(B_t_sol, "lib/B.t.sol")>>]

TreeOdd ==
    [p \in {""} |->
        << Entry(None, Some(A_sol), Some("A.sol")),
           Entry(Some("symlink"), Some(B_sol), Some("B.sol")),
           Entry(Some("file"), None, Some("x")),
           Entry(Some("dir"), Some(<<"d">>), None),
           File(TestToken_sol, "TestToken.sol"),
           File(Token_sol, "Token.sol") >>]

TreeNoSource ==
    [p \in {"", "test"} |->
        IF p = "" THEN <<File(token_sol_bak, "token.sol.bak"), Dir("test")>>
        ELSE <<File(Token_t_sol, "test/Token.t.sol"),
               File(DeployToken_s_sol, "test/DeployToken.s.sol")>>]

TreeDeep ==
    [p \in {"", "a", "a/b"} |->
        IF p = "" THEN <<Dir("a"), File(A_sol, "A.sol")>>
        ELSE IF p = "a" THEN <<Dir("a/b")>>
        ELSE <<File(B_sol, "a/b/B.sol")>>]

Trees == {TreeExample, TreeOdd, TreeNoSource, TreeDeep}

\* what the listing API holds for a path of a repository
Listing(r, path) ==
    IF r \in DOMAIN remote /\ path \in DOMAIN remote[r] THEN remote[r][path]
    ELSE <<>>

---------------------------------------------------------------------------
(* Inputs *)

UrlA     == <<"https:", "/", "/", "github.com", "/", "ownerA", "/", "repoA">>
UrlB     == <<"https:", "/", "/", "github.com", "/", "ownerB", "/", "repoB">>
UrlShort == <<"https:", "/", "/", "github.com", "/">>

Urls == {UrlA, UrlB, UrlShort}
RepoNames == {"repoA", "repoB"}
\* the workspaces a previous run may have left behind
StaleNames == {"repoA"}

Statuses == {200, 400, 404}
\* what a successful `forge inspect` writes: bytes that are text and one
\* byte that is not valid UTF-8
Stdouts == {<<"0x60", "\\xFF">>}

InputLists == UNION {[1..n -> Urls] : n \in 0..MaxRepos}

Event(op, arg, out) == [op |-> op, arg |-> arg, out |-> out]

\* a run of `forge inspect <arg> bytecode` made by get_bytecode(file, repo)
\* that ended as `out` with `data` on its stdout
InspectEvent(file, arg, out, data) ==
    [op |-> "inspect", arg |-> arg, out |-> out, file |-> file, data |-> data]

---------------------------------------------------------------------------
Init ==
    /\ target_repos \in InputLists
    /\ remote \in [RepoNames -> Trees]
    /\ workspaces \in SUBSET StaleNames
    /\ pc = "loop"
    /\ idx = 1
    /\ owner = ""
    /\ repo = ""
    /\ response = None
    /\ stack = <<>>
    /\ repo_results = <<>>
    /\ all_results = <<>>
    /\ returned = None
    /\ events = <<>>

---------------------------------------------------------------------------
(* process *)

\* `response.status().as_u16() > 400`
Inaccessible(status) == status > 400

\* a failed clone handled like an inaccessible repository
CloneFailedSkips ==
    /\ pc' = "loop"
    /\ idx' = idx + 1
    /\ UNCHANGED workspaces

\* `Err(e) => panic!("failed to clone: {}", e)`
CloneFailed ==
    /\ pc' = "panic"
    /\ UNCHANGED <<workspaces, idx>>

\* the commented-out `return Err(..)` of the compile check put back
AfterCompileFatal(out) == IF out = "exit_zero" THEN "text" ELSE "err"

\* where process goes after the compiler has exited: the body of
\* `if !output.status.success()` only builds a message
AfterCompile(out) == "text"

\* the push without its emptiness test
ShouldPushAlways(rr) == TRUE

\* `if !repo_results.is_empty()`
ShouldPush(rr) == rr # <<>>

\* an insert at the front in place of the push
PushFront(all, name, rr) == <<<<name, rr>>>> \o all

\* `all_results.push((repo.to_string(), repo_results))`
Push(all, name, rr) == Append(all, <<name, rr>>)

\* the body decoded right after the status check, before the clone
AfterAccessDecodesFirst == "text"

\* where process goes with a response that passed the status check
AfterAccess == "preclean"

\* the pre-clone delete left out
ExistsNever(name) == FALSE

\* `repo_path.exists()` for ./repos/<name>
Exists(name) == name \in workspaces

\* a failed delete returned with `?`
AfterDeleteFatal(phase, ok) ==
    IF ~ok THEN "err" ELSE IF phase = "pre" THEN "clone" ELSE "loop"

\* a stale workspace that could not be deleted used in place of a clone
AfterDeleteReusesWorkspace(phase, ok) ==
    IF phase = "pre" THEN (IF ok THEN "clone" ELSE "compile") ELSE "loop"

\* where process goes after remove_dir_all: `if result.is_err()` only logs
AfterDelete(phase, ok) == IF phase = "pre" THEN "clone" ELSE "loop"

\* the head of the loop body: `contest.split('/').collect()` and
\* `(parts[3], parts[4])`; indexing past the end of parts panics
Parse ==
    /\ pc = "loop"
    /\ idx <= Len(target_repos)
    /\ LET parts == split(target_repos[idx]) IN
        IF Len(parts) < 5
        THEN /\ pc' = "panic"
             /\ UNCHANGED <<owner, repo>>
        ELSE /\ owner' = parts[4]
             /\ repo' = parts[5]
             /\ pc' = "request"
    /\ events' = <<>>
    /\ UNCHANGED <<target_repos, remote, workspaces, idx, response, stack,
                   repo_results, all_results, returned>>

\* the root listing request and the status check
RootRequest ==
    /\ pc = "request"
    /\ \/ /\ events' = Append(events, Event("list", "", "transport_err"))
          /\ pc' = "err"
          /\ UNCHANGED <<response, idx>>
       \/ \E status \in Statuses :
            /\ events' = Append(events, Event("list", "", "sent"))
            /\ IF Inaccessible(status)
               THEN /\ response' = None
                    /\ idx' = idx + 1
                    /\ pc' = "loop"
               ELSE /\ response' = Some([status |-> status])
                    /\ idx' = idx
                    /\ pc' = AfterAccess
    /\ UNCHANGED <<target_repos, remote, workspaces, owner, repo, stack,
                   repo_results, all_results, returned>>

\* `if repo_path.exists()`: the first remove_dir_all future is dropped
\* without being polled, the second is awaited and its error only logged
PreClean ==
    /\ pc = "preclean"
    /\ IF Exists(repo)
       THEN \E ok \in BOOLEAN :
            /\ events' = Append(events,
                    Event("delete", "pre", IF ok THEN "ok" ELSE "failed"))
            /\ workspaces' = IF ok THEN workspaces \ {repo} ELSE workspaces
            /\ pc' = AfterDelete("pre", ok)
       ELSE /\ pc' = "clone"
            /\ UNCHANGED <<events, workspaces>>
    /\ UNCHANGED <<target_repos, remote, idx, owner, repo, response, stack,
                   repo_results, all_results, returned>>

\* `Repository::clone(&repo_fetch_url, &repo_path_str)`
Clone ==
    /\ pc = "clone"
    /\ \/ /\ events' = Append(events, Event("clone", repo, "ok"))
          /\ workspaces' = workspaces \cup {repo}
          /\ pc' = "compile"
          /\ UNCHANGED idx
       \/ /\ events' = Append(events, Event("clone", repo, "failed"))
          /\ CloneFailed
    /\ UNCHANGED <<target_repos, remote, owner, repo, response, stack,
                   repo_results, all_results, returned>>

\* `Command::new("forge").current_dir(..).arg("compile").output().await?`
Compile ==
    /\ pc = "compile"
    /\ \E out \in {"spawn_err", "exit_nonzero", "exit_zero"} :
        /\ events' = Append(events, Event("compile", repo, out))
        /\ pc' = IF out = "spawn_err" THEN "err" ELSE AfterCompile(out)
    /\ UNCHANGED <<target_repos, remote, workspaces, idx, owner, repo,
                   response, stack, repo_results, all_results, returned>>

Frame(contents) == [contents |-> contents, i |-> 1, repo_results |-> <<>>]

\* `response.text().await?`, `serde_json::from_str(&body).unwrap()` and the
\* call of process_contents
ReadBody ==
    /\ pc = "text"
    /\ \E out \in {"transport_err", "malformed", "array"} :
        /\ events' = Append(events, Event("text", "", out))
        /\ pc' = CASE out = "transport_err" -> "err"
                   [] out = "malformed" -> "panic"
                   [] OTHER -> "walk"
        /\ stack' = IF out = "array" THEN <<Frame(Listing(repo, ""))>> ELSE <<>>
    /\ response' = None
    /\ UNCHANGED <<target_repos, remote, workspaces, idx, owner, repo,
                   repo_results, all_results, returned>>

\* lines 180-184
Aggregate ==
    /\ pc = "aggregate"
    /\ all_results' = IF ShouldPush(repo_results)
                      THEN Push(all_results, repo, repo_results)
                      ELSE all_results
    /\ pc' = "postclean"
    /\ UNCHANGED <<target_repos, remote, workspaces, idx, owner, repo,
                   response, stack, repo_results, returned, events>>

\* lines 187-190 and the end of the loop body
PostClean ==
    /\ pc = "postclean"
    /\ \E ok \in BOOLEAN :
        /\ events' = Append(events,
                Event("delete", "post", IF ok THEN "ok" ELSE "failed"))
        /\ workspaces' = IF ok THEN workspaces \ {repo} ELSE workspaces
        /\ pc' = AfterDelete("post", ok)
    /\ idx' = idx + 1
    /\ repo_results' = <<>>
    /\ UNCHANGED <<target_repos, remote, owner, repo, response, stack,
                   all_results, returned>>

\* `Ok(all_results)`
Return ==
    /\ pc = "loop"
    /\ idx > Len(target_repos)
    /\ returned' = Some(all_results)
    /\ pc' = "done"
    /\ UNCHANGED <<target_repos, remote, workspaces, idx, owner, repo,
                   response, stack, repo_results, all_results, events>>

---------------------------------------------------------------------------
(* process_contents and get_bytecode *)

Top == stack[Len(stack)]
Cur == Top.contents[Top.i]
AtEntry == pc = "walk" /\ stack # <<>> /\ Top.i <= Len(Top.contents)

\* the frame with its loop advanced to the next entry
Advance(f) == [f EXCEPT !.i = f.i + 1]
SetTop(f) == [stack EXCEPT ![Len(stack)] = f]

\* `Ok(bytecode) => repo_results.push((filename.clone(), bytecode))`
BytecodeOk(f, filename, bytecode) ==
    Advance([f EXCEPT !.repo_results = Append(@, <<filename, bytecode>>)])

\* a failed extraction recorded with an empty bytecode
BytecodeErrPushesEmpty(f, filename) ==
    Advance([f EXCEPT !.repo_results = Append(@, <<filename, <<>>>>)])

\* a failed extraction tried again
BytecodeErrRetries(f, filename) == f

\* `Err(e) => { eprintln!(..); continue; }`
BytecodeErr(f, filename) == Advance(f)

\* the caller's loop not advanced past the directory it has walked
ReturnToSameEntry(caller, dir_results) ==
    [caller EXCEPT !.repo_results = @ \o dir_results]

\* the recursive call's result dropped
ReturnToDropping(caller, dir_results) == Advance(caller)

\* `repo_results.append(&mut dir_results)` in the caller's frame
ReturnTo(caller, dir_results) ==
    Advance([caller EXCEPT !.repo_results = @ \o dir_results])

\* a directory that cannot be listed treated as an empty one
SubListingFailedSkipsDir ==
    /\ stack' = [stack EXCEPT ![Len(stack)] = [@ EXCEPT !.i = @ + 1]]
    /\ pc' = pc

\* the `?` after send() or json(): every level of process_contents and
\* then process return the error
SubListingFailed ==
    /\ stack' = <<>>
    /\ pc' = "err"

\* what `forge inspect` can do: fail to start, exit non-zero, or exit zero
\* with some bytes on stdout
InspectOutcomes ==
    {<<"spawn_err", <<>>>>, <<"exit_nonzero", <<>>>>}
        \cup {<<"exit_zero", b>> : b \in Stdouts}

\* Some("file") with a name the filter accepts: get_bytecode is called
Extract ==
    /\ AtEntry
    /\ Cur._type = Some("file")
    /\ Cur.name # None
    /\ isEligible(Cur.name[1])
    /\ LET filename == Cur.name[1]
           file_name == strip_suffix(filename, DOT_SOL)
       IN IF file_name = None
          THEN /\ pc' = "panic"
               /\ UNCHANGED <<stack, events>>
          ELSE \E o \in InspectOutcomes :
                /\ events' = Append(events,
                        InspectEvent(filename, file_name[1], o[1], o[2]))
                /\ stack' = SetTop(IF o[1] = "exit_zero"
                                   THEN BytecodeOk(Top, filename, from_utf8_lossy(o[2]))
                                   ELSE BytecodeErr(Top, filename))
                /\ pc' = pc
    /\ UNCHANGED <<target_repos, remote, workspaces, idx, owner, repo,
                   response, repo_results, all_results, returned>>

\* an entry of an unknown or missing kind reported as an error
SkipEntryRejectsUnknownKind ==
    /\ AtEntry
    /\ \/ Cur._type = Some("file") /\ Cur.name = None
       \/ Cur._type = Some("file") /\ Cur.name # None /\ ~isEligible(Cur.name[1])
       \/ Cur._type = Some("dir") /\ Cur.path = None
       \/ Cur._type \notin {Some("file"), Some("dir")}
    /\ IF Cur._type \in {Some("file"), Some("dir")}
       THEN stack' = SetTop(Advance(Top)) /\ pc' = pc
       ELSE stack' = <<>> /\ pc' = "err"
    /\ UNCHANGED <<target_repos, remote, workspaces, idx, owner, repo,
                   response, repo_results, all_results, returned, events>>

\* an entry that causes no call: a file without a name or with a name the
\* filter rejects, a dir without a path, any other or missing kind
SkipEntry ==
    /\ AtEntry
    /\ \/ Cur._type = Some("file") /\ Cur.name = None
       \/ Cur._type = Some("file") /\ Cur.name # None /\ ~isEligible(Cur.name[1])
       \/ Cur._type = Some("dir") /\ Cur.path = None
       \/ Cur._type \notin {Some("file"), Some("dir")}
    /\ stack' = SetTop(Advance(Top))
    /\ UNCHANGED <<target_repos, remote, workspaces, pc, idx, owner, repo,
                   response, repo_results, all_results, returned, events>>

\* Some("dir") with a path: the listing request, its decoding and the
\* recursive call; an error of either `?` unwinds every level and process
EnterDir ==
    /\ AtEntry
    /\ Cur._type = Some("dir")
    /\ Cur.path # None
    /\ \E out \in {"transport_err", "malformed", "array"} :
        /\ events' = Append(events, Event("list", Cur.path[1], out))
        /\ IF out = "array"
           THEN /\ stack' = Append(stack, Frame(Listing(repo, Cur.path[1])))
                /\ pc' = pc
           ELSE SubListingFailed
    /\ UNCHANGED <<target_repos, remote, workspaces, idx, owner, repo,
                   response, repo_results, all_results, returned>>

\* `Ok(repo_results)`: the caller appends it to its own list, or process
\* receives it
WalkReturn ==
    /\ pc = "walk"
    /\ stack # <<>>
    /\ Top.i > Len(Top.contents)
    /\ IF Len(stack) > 1
       THEN LET caller == stack[Len(stack) - 1] IN
            /\ stack' = [SubSeq(stack, 1, Len(stack) - 1) EXCEPT
                           ![Len(stack) - 1] = ReturnTo(caller, Top.repo_results)]
            /\ UNCHANGED <<pc, repo_results>>
       ELSE /\ stack' = <<>>
            /\ repo_results' = Top.repo_results
            /\ pc' = "aggregate"
    /\ UNCHANGED <<target_repos, remote, workspaces, idx, owner, repo,
                   response, all_results, returned, events>>

---------------------------------------------------------------------------
Next ==
    \/ Parse
    \/ RootRequest
    \/ PreClean
    \/ Clone
    \/ Compile
    \/ ReadBody
    \/ Extract
    \/ SkipEntry
    \/ EnterDir
    \/ WalkReturn
    \/ Aggregate
    \/ PostClean
    \/ Return

Spec == Init /\ [][Next]_vars

---------------------------------------------------------------------------
(* The walk over a listing of one arbitrary entry: process has cloned and
   compiled repoA and calls process_contents on its root listing. *)

Pieces ==
    {<<"A">>, <<"T", "e">>, <<"s", "t">>, <<".", "t">>, <<".", "s">>,
     DOT_SOL, <<".", "b", "a", "k">>}

RECURSIVE Concat(_)
Concat(q) == IF q = <<>> THEN <<>> ELSE q[1] \o Concat(Tail(q))

FilterNames ==
    {Concat(q) : q \in UNION {[1..n -> Pieces] : n \in 0..MaxPieces}}
        \cup {Token_sol, Token_t_sol, DeployToken_s_sol, TestToken_sol,
              token_sol_bak}

Kinds == {None, Some("file"), Some("dir"), Some("symlink")}

FilterEntries ==
    {Entry(t, n, p) : t \in Kinds,
                      n \in {None} \cup {Some(x) : x \in FilterNames},
                      p \in {None, Some("p")}}

FilterInit ==
    /\ target_repos = <<UrlA>>
    /\ remote \in {[r \in RepoNames |-> [p \in {""} |-> <<e>>]] :
                        e \in FilterEntries}
    /\ workspaces = {"repoA"}
    /\ pc = "walk"
    /\ idx = 1
    /\ owner = "ownerA"
    /\ repo = "repoA"
    /\ response = None
    /\ stack = <<Frame(remote["repoA"][""])>>
    /\ repo_results = <<>>
    /\ all_results = <<>>
    /\ returned = None
    /\ events = <<Event("list", "", "sent"), Event("clone", "repoA", "ok"),
                  Event("compile", "repoA", "exit_zero"),
                  Event("text", "", "array")>>

FilterNext == Extract \/ SkipEntry \/ EnterDir \/ WalkReturn

SpecFilter == FilterInit /\ [][FilterNext]_vars

---------------------------------------------------------------------------
(* The walk alone, over the sample trees and over chains of nested
   directories of every depth up to MaxDepth: process has cloned and
   compiled repoA and calls process_contents on its root listing.  Every
   external call returns, so a walk that can take a step takes one. *)

\* the path of the directory at depth k of a chain
RECURSIVE ChainPath(_)
ChainPath(k) ==
    IF k = 0 THEN "" ELSE IF k = 1 THEN "d" ELSE ChainPath(k - 1) \o "/d"

\* depth nested directories, a source file after each and one at the end
ChainTree(depth) ==
    [p \in {ChainPath(k) : k \in 0..depth} |->
        LET k == CHOOSE j \in 0..depth : ChainPath(j) = p IN
        IF k < depth
        THEN <<Dir(ChainPath(k + 1)), File(B_sol, "B.sol")>>
        ELSE <<File(Token_sol, "Token.sol")>>]

WalkTrees == Trees \cup {ChainTree(d) : d \in 0..MaxDepth}

WalkInit ==
    /\ target_repos = <<UrlA>>
    /\ remote \in {[r \in RepoNames |-> t] : t \in WalkTrees}
    /\ workspaces = {"repoA"}
    /\ pc = "walk"
    /\ idx = 1
    /\ owner = "ownerA"
    /\ repo = "repoA"
    /\ response = None
    /\ stack = <<Frame(remote["repoA"][""])>>
    /\ repo_results = <<>>
    /\ all_results = <<>>
    /\ returned = None
    /\ events = <<Event("list", "", "sent"), Event("clone", "repoA", "ok"),
                  Event("compile", "repoA", "exit_zero"),
                  Event("text", "", "array")>>

SpecWalk == WalkInit /\ [][FilterNext]_vars /\ WF_vars(FilterNext)

TypeOK ==
    /\ pc \in {"loop", "request", "preclean", "clone", "compile", "text",
               "walk", "aggregate", "postclean", "done", "err", "panic"}
    /\ idx \in 1..(Len(target_repos) + 1)
    /\ workspaces \subseteq RepoNames

---------------------------------------------------------------------------
(* Vocabulary of the properties *)

Last(q) == q[Len(q)]
Range(q) == {q[k] : k \in 1..Len(q)}

HasEvent(op, arg, out) == \E e \in Range(events) : e.op = op /\ e.arg = arg /\ e.out = out
HasOp(op) == \E e \in Range(events) : e.op = op

\* process has left the loop without returning Ok
Aborted == pc \in {"err", "panic"}

\* the (fileName, bytecode) pairs of the extractions that succeeded for the
\* current repository, in the order they were made
IsSuccess(e) == e.op = "inspect" /\ e.out = "exit_zero"
IsFailure(e) == e.op = "inspect" /\ e.out # "exit_zero"
Successes ==
    LET ok == SelectSeq(events, IsSuccess)
    IN [k \in 1..Len(ok) |-> <<ok[k].file, from_utf8_lossy(ok[k].data)>>]

\* the files get_bytecode was called for, in order
Attempted ==
    LET calls == SelectSeq(events, LAMBDA e : e.op = "inspect")
    IN [k \in 1..Len(calls) |-> calls[k].file]

\* "ends with" and "contains" stated by decomposition of the name
HasSuffix(n, suf) == \E k \in 0..Len(n) : n = SubSeq(n, 1, k) \o suf
HasSubstring(n, pat) ==
    \E k \in 0..Len(n) : \E m \in k..Len(n) :
        n = SubSeq(n, 1, k) \o pat \o SubSeq(n, m + 1, Len(n))

\* the source filter as section 4.2 of the specification words it
Accepted(e) ==
    /\ e._type = Some("file")
    /\ e.name # None
    /\ HasSuffix(e.name[1], DOT_SOL)
    /\ ~HasSuffix(e.name[1], DOT_T_SOL)
    /\ ~HasSuffix(e.name[1], DOT_S_SOL)
    /\ ~HasSubstring(e.name[1], TEST)

\* the names of the accepted file entries of a tree, at any depth, in
\* depth-first listing order
RECURSIVE AcceptedUnder(_, _, _)
AcceptedUnder(tree, path, k) ==
    LET l == IF path \in DOMAIN tree THEN tree[path] ELSE <<>> IN
    IF k > Len(l) THEN <<>>
    ELSE LET e == l[k] IN
         (IF Accepted(e) THEN <<e.name[1]>>
          ELSE IF e._type = Some("dir") /\ e.path # None
               THEN AcceptedUnder(tree, e.path[1], 1)
               ELSE <<>>)
         \o AcceptedUnder(tree, path, k + 1)

AcceptedFiles(tree) == AcceptedUnder(tree, "", 1)

Names(rr) == [k \in 1..Len(rr) |-> rr[k][1]]

\* parts[4] of a URL, "" when the URL has no such segment
RepoOf(url) == IF Len(split(url)) >= 5 THEN split(url)[5] ELSE ""

\* a is a subsequence of b
RECURSIVE IsSubsequence(_, _)
IsSubsequence(a, b) ==
    IF a = <<>> THEN TRUE
    ELSE IF b = <<>> THEN FALSE
    ELSE IF a[1] = b[1] THEN IsSubsequence(Tail(a), Tail(b))
    ELSE IsSubsequence(a, Tail(b))

---------------------------------------------------------------------------
(* Properties *)

\* C1: a repository whose root listing answers with a status >= 400 is
\* skipped: process never goes on to the workspace delete, the clone, the
\* compile or the walk while holding such a response.
C1_InaccessibleIsSkipped ==
    \A r \in Range(response) : r.status >= 400 => pc = "loop"

\* C2: when the walk of a cloned repository fails on a sub-listing, the
\* post-processing workspace delete has been attempted by the time the
\* processing of that repository has ended.
C2_CleanupAfterFailedWalk ==
    (/\ Aborted
     /\ HasEvent("clone", repo, "ok")
     /\ \E e \in Range(events) :
            e.op = "list" /\ e.arg # "" /\ e.out \in {"transport_err", "malformed"})
        => HasEvent("delete", "post", "ok") \/ HasEvent("delete", "post", "failed")

\* C3: a transport failure of a listing request, a listing body that is not
\* an array of entries, or a failure to start the compiler does not end the
\* run.
C3_LocalErrorKeepsRunning ==
    (/\ events # <<>>
     /\ \/ Last(events).op = "list" /\ Last(events).out \in {"transport_err", "malformed"}
        \/ Last(events).op = "text" /\ Last(events).out = "malformed"
        \/ Last(events).op = "compile" /\ Last(events).out = "spawn_err")
        => ~Aborted

\* C4: a failed get_bytecode adds no entry and only moves the walk to the
\* next entry; the walk still calls get_bytecode for every accepted file of
\* the tree and the repository's result is exactly the extractions that
\* succeeded.
C4_FailedExtractionIsSkipped ==
    /\ [][(pc = "walk" /\ events' # events /\ IsFailure(Last(events)'))
            => /\ pc' = "walk"
               /\ stack' = SetTop(Advance(Top))
               /\ UNCHANGED <<repo_results, all_results, returned, idx>>]_vars
    /\ []((pc = "aggregate" /\ \E e \in Range(events) : IsFailure(e))
            => /\ Attempted = AcceptedFiles(remote[repo])
               /\ repo_results = Successes)

C4_Witness ==
    /\ pc = "aggregate"
    /\ \E k \in 1..Len(events) : \E m \in (k + 1)..Len(events) :
            IsFailure(events[k]) /\ IsSuccess(events[m])
    /\ repo_results # <<>>

\* C5: a compiler exit status other than zero changes nothing but the
\* history: process goes on to read the listing exactly as after a
\* successful compile, get_bytecode is still called for every accepted file,
\* the result is the successful extractions and the workspace delete is
\* attempted.
C5_CompileFailureIsNotFatal ==
    /\ [][(pc = "compile" /\ events' # events
            /\ Last(events)'.op = "compile" /\ Last(events)'.out = "exit_nonzero")
            => /\ pc' = "text"
               /\ UNCHANGED <<target_repos, remote, workspaces, idx, owner,
                              repo, response, stack, repo_results,
                              all_results, returned>>]_vars
    /\ []((pc = "aggregate" /\ HasEvent("compile", repo, "exit_nonzero"))
            => /\ Attempted = AcceptedFiles(remote[repo])
               /\ repo_results = Successes)
    /\ []((pc \in {"loop", "done"} /\ HasEvent("compile", repo, "exit_nonzero"))
            => \E e \in Range(events) : e.op = "delete" /\ e.arg = "post")

C5_Witness ==
    /\ pc = "loop"
    /\ HasEvent("compile", repo, "exit_nonzero")
    /\ all_results # <<>>
    /\ Last(all_results) = <<repo, Successes>>

\* C6: a failed clone is the last thing process does: it panics at once,
\* nothing further is enabled (no compile, walk or extraction, no later
\* repository) and no aggregate is returned.
C6_CloneFailureAbortsRun ==
    (\E e \in Range(events) : e.op = "clone" /\ e.out = "failed")
        => /\ Last(events).op = "clone"
           /\ pc = "panic"
           /\ idx <= Len(target_repos)
           /\ returned = None
           /\ ~ENABLED Next

\* the clone of a later repository fails after an earlier one gave results
C6_Witness ==
    /\ HasEvent("clone", repo, "failed")
    /\ pc = "panic"
    /\ idx > 1
    /\ all_results # <<>>

\* C7: no entry of all_results has an empty file list, and a walk that
\* returned no file leaves all_results as it was.
C7_NoEmptyResult ==
    /\ [](\A k \in 1..Len(all_results) : all_results[k][2] # <<>>)
    /\ [][(pc = "aggregate" /\ repo_results = <<>>)
            => all_results' = all_results]_vars

C7_Witness ==
    /\ pc = "postclean"
    /\ repo_results = <<>>
    /\ HasEvent("clone", repo, "ok")
    /\ HasEvent("compile", repo, "exit_zero")
    /\ all_results # <<>>

\* the positions of target_repos whose loop body has reached the push
Processed == IF pc = "postclean" THEN idx ELSE idx - 1

\* C8: the repository names of all_results are a subsequence of the names
\* of the input positions processed so far, all_results only grows by one
\* appended entry at a time, and the value returned is all_results.
C8_InputOrderPreserved ==
    /\ [](/\ Len(all_results) <= Processed
          /\ IsSubsequence(Names(all_results),
                           [k \in 1..Processed |-> RepoOf(target_repos[k])]))
    /\ [][\/ all_results' = all_results
          \/ /\ Len(all_results') = Len(all_results) + 1
             /\ SubSeq(all_results', 1, Len(all_results)) = all_results
             /\ idx' = idx]_vars
    /\ [](returned # None => returned[1] = all_results)

C8_Witness ==
    /\ pc = "done"
    /\ Len(all_results) = 2
    /\ all_results[1][1] # all_results[2][1]

\* the entry of the one-entry root listing
RootEntry == remote[repo][""][1]

\* C9: get_bytecode is called for an entry iff the entry is a file whose
\* name ends with .sol, does not end with .t.sol or .s.sol and does not
\* contain Test; Token.sol passes and Token.t.sol, DeployToken.s.sol,
\* TestToken.sol and token.sol.bak do not.
C9_FilterAcceptsExactly ==
    /\ ((pc = "walk" /\ stack # <<>> /\ stack[1].i > 1) \/ pc = "aggregate")
        => (HasOp("inspect") <=> Accepted(RootEntry))
    /\ isEligible(Token_sol)
    /\ ~isEligible(Token_t_sol)
    /\ ~isEligible(DeployToken_s_sol)
    /\ ~isEligible(TestToken_sol)
    /\ ~isEligible(token_sol_bak)

C9_Witness ==
    /\ pc = "aggregate"
    /\ RootEntry = File(Token_sol, "p")
    /\ HasOp("inspect")

\* C10: when no extraction failed, the walk returns the accepted files of
\* the tree, each once, in listing order, with the bytecode of its
\* extraction; and whatever a frame holds came from a successful extraction.
C10_WalkReturnsAcceptedFiles ==
    /\ (pc = "aggregate" /\ \A e \in Range(events) : ~IsFailure(e))
        => /\ Names(repo_results) = AcceptedFiles(remote[repo])
           /\ repo_results = Successes
    /\ \A k \in 1..Len(stack) :
            Range(stack[k].repo_results) \subseteq Range(Successes)
    /\ pc \in {"aggregate", "postclean"}
        => Range(repo_results) \subseteq Range(Successes)

C10_Witness ==
    /\ pc = "aggregate"
    /\ remote[repo] = TreeExample
    /\ Names(repo_results) = <<A_sol, B_sol>>

\* the last external call made
LastIs(op, arg, out) ==
    events # <<>> /\ Last(events).op = op /\ Last(events).arg = arg
        /\ Last(events).out = out

\* C11: a workspace delete that fails is only logged: process goes on
\* exactly as after a delete that succeeded (to the clone after the
\* pre-clone delete, to the next repository after the post-processing
\* delete), the workspace stays, and all_results and the returned value
\* are untouched.
C11_DeleteFailureIsNotEscalated ==
    /\ [][(events' # events /\ LastIs("delete", "pre", "failed")')
            => /\ pc' = "clone"
               /\ UNCHANGED <<workspaces, idx, all_results, returned,
                              repo_results, stack, response>>]_vars
    /\ [][(events' # events /\ LastIs("delete", "post", "failed")')
            => /\ pc' = "loop"
               /\ idx' = idx + 1
               /\ UNCHANGED <<workspaces, all_results, returned, stack,
                              response>>]_vars
    /\ []((\E e \in Range(events) : e.op = "delete" /\ e.out = "failed")
            => (\/ ~Aborted
                \/ \E e \in Range(events) :
                     /\ e.op \in {"clone", "compile", "text", "list"}
                     /\ e.out \in {"failed", "spawn_err", "transport_err",
                                   "malformed"}))

C11_Witness ==
    /\ pc = "done"
    /\ HasEvent("delete", "pre", "failed")
    /\ HasEvent("delete", "post", "failed")
    /\ returned = Some(all_results)
    /\ all_results # <<>>
    /\ Last(all_results)[1] = repo

\* the lifecycle phase an external call belongs to
Phase(e) ==
    CASE e.op = "list" /\ e.arg = ""      -> 1    \* CheckingAccess
      [] e.op = "delete" /\ e.arg = "pre" -> 2    \* Cleaning(pre)
      [] e.op = "clone"                   -> 3    \* Cloning
      [] e.op = "compile"                 -> 4    \* Compiling
      [] e.op = "text"                    -> 5    \* the root body is read
      [] e.op = "list" /\ e.arg # ""      -> 6    \* Walking
      [] e.op = "inspect"                 -> 6    \* Extracting
      [] OTHER                            -> 7    \* Cleaning(post)

\* the repository's loop body ran to its end
Completed ==
    /\ pc \in {"loop", "done"}
    /\ \E e \in Range(events) : e.op = "delete" /\ e.arg = "post"

Positions(op) == {k \in 1..Len(events) : events[k].op = op}

\* a is a prefix of b
IsPrefix(a, b) == Len(a) <= Len(b) /\ SubSeq(b, 1, Len(a)) = a

\* the accepted files of each tree the listing API may hold
AcceptedFilesOf == [tree \in Trees |-> AcceptedFiles(tree)]

\* C13: the compiler runs at most once per repository, exactly once when
\* the clone succeeded and process has moved past the compile, after the
\* clone and before every inspect; inspect has run once for each accepted
\* file entry the walk has reached so far (all of them when the walk
\* returns); without a successful clone there is no compile and no inspect.
C13_CompileOnceInspectOncePerFile ==
    LET compiles == Positions("compile")
        inspects == Positions("inspect")
        cloned == HasEvent("clone", repo, "ok")
        accepted == AcceptedFilesOf[remote[repo]]
    IN  /\ Cardinality(compiles) <= 1
        /\ (cloned /\ pc # "compile") => Cardinality(compiles) = 1
        /\ \A c \in compiles :
              /\ \E k \in 1..(c - 1) : events[k] = Event("clone", repo, "ok")
              /\ \A k \in inspects : c < k
        /\ inspects # {} => compiles # {}
        /\ ~cloned => compiles = {} /\ inspects = {}
        /\ (repo \in DOMAIN remote /\ inspects # {})
              => IsPrefix(Attempted, accepted)
        /\ pc = "aggregate" => Attempted = accepted

C13_Witness ==
    /\ pc = "aggregate"
    /\ Len(Attempted) = 2
    /\ HasEvent("compile", repo, "exit_zero")
    /\ \E e \in Range(events) : IsFailure(e)
    /\ idx = 2

IsFailedSubListing(e) ==
    e.op = "list" /\ e.arg # "" /\ e.out \in {"transport_err", "malformed"}

LastFailedSubListing == events # <<>> /\ IsFailedSubListing(Last(events))

\* C14: a sub-listing request that fails, or whose body does not decode,
\* ends the walk at every level at once (no frame is left), with what the
\* frames had collected discarded: all_results is unchanged by the step,
\* holds entries of earlier input positions only, and nothing can be added
\* afterwards because process has returned the error.
C14_FailedSubListingDiscardsWalk ==
    /\ [][(events' # events /\ LastFailedSubListing')
            => /\ pc' = "err"
               /\ stack' = <<>>
               /\ UNCHANGED <<all_results, repo_results, returned, idx>>]_vars
    /\ []((\E e \in Range(events) : IsFailedSubListing(e))
            => /\ LastFailedSubListing
               /\ pc = "err"
               /\ stack = <<>>
               /\ repo_results = <<>>
               /\ returned = None
               /\ Len(all_results) <= idx - 1
               /\ ~ENABLED Next)

\* the failure comes after a file of the repository was extracted
C14_Witness ==
    /\ LastFailedSubListing
    /\ \E e \in Range(events) : IsSuccess(e)
    /\ pc = "err"
    /\ all_results # <<>>

\* C15: a clone is never started on an existing workspace without a delete
\* of it having been attempted in the same loop body (the step that finds
\* the workspace makes the delete call); a repository is only started when
\* the previous one, if it was cloned, has had its post-processing delete
\* attempted; and a post-processing delete that succeeded leaves no
\* workspace of that repository.
C15_DeleteBeforeCloneAndBeforeNext ==
    /\ [][(pc = "preclean" /\ repo \in workspaces)
            => /\ Len(events') = Len(events) + 1
               /\ Last(events)'.op = "delete"
               /\ Last(events)'.arg = "pre"]_vars
    /\ []((pc = "clone" /\ repo \in workspaces)
            => LastIs("delete", "pre", "failed"))
    /\ []((pc = "loop" /\ HasEvent("clone", repo, "ok"))
            => \E e \in Range(events) : e.op = "delete" /\ e.arg = "post")
    /\ [](LastIs("delete", "post", "ok") => repo \notin workspaces)

\* the workspace found before the clone was left by an earlier repository
\* of the same name in this run
C15_Witness ==
    /\ pc = "clone"
    /\ idx = 2
    /\ repo = "repoB"
    /\ HasEvent("delete", "pre", "ok")
    /\ repo \notin workspaces

\* an entry of a missing or unknown kind, a file entry without a name, a
\* dir entry without a path
IsUnusable(e) ==
    \/ e._type \notin {Some("file"), Some("dir")}
    \/ e._type = Some("file") /\ e.name = None
    \/ e._type = Some("dir") /\ e.path = None

\* C16: at an unusable entry the walk only moves on to the next entry: no
\* call is made, nothing is added to any result and no error is raised; a
\* listing of one such entry returns the empty result.
C16_UnusableEntryIsSkipped ==
    /\ [][(AtEntry /\ IsUnusable(Cur))
            => /\ stack' = SetTop(Advance(Top))
               /\ pc' = "walk"
               /\ UNCHANGED <<events, repo_results, all_results, workspaces,
                              returned>>]_vars
    /\ [](IsUnusable(RootEntry)
            => /\ pc \in {"walk", "aggregate"}
               /\ ~HasOp("inspect")
               /\ \A e \in Range(events) : e.op = "list" => e.arg = ""
               /\ \A k \in 1..Len(stack) : stack[k].repo_results = <<>>
               /\ repo_results = <<>>)

C16_Witness ==
    /\ pc = "aggregate"
    /\ RootEntry = Entry(Some("symlink"), Some(Token_sol), Some("p"))
    /\ repo_results = <<>>

\* the paths of the dir entries of a tree, at any depth, in depth-first
\* listing order
RECURSIVE DirsUnder(_, _, _)
DirsUnder(tree, path, k) ==
    LET l == IF path \in DOMAIN tree THEN tree[path] ELSE <<>> IN
    IF k > Len(l) THEN <<>>
    ELSE LET e == l[k] IN
         (IF e._type = Some("dir") /\ e.path # None
          THEN <<e.path[1]>> \o DirsUnder(tree, e.path[1], 1)
          ELSE <<>>)
         \o DirsUnder(tree, path, k + 1)

\* the directories the walk has requested a listing of, in order
Listed ==
    LET reqs == SelectSeq(events, LAMBDA e : e.op = "list" /\ e.arg # "")
    IN [k \in 1..Len(reqs) |-> reqs[k].arg]

\* C17: the walk of a finite tree ends, whatever its depth: it leaves
\* pc = "walk" for good, with an empty call stack; on the way every
\* directory is listed once, in depth-first order, the call stack is never
\* deeper than the directories entered, and a walk that returns Ok has
\* listed every directory and exhausted every level.
C17_WalkTerminates ==
    /\ (pc = "walk") ~> (pc \in {"aggregate", "err"} /\ stack = <<>>)
    /\ [][pc # "walk" => pc' # "walk"]_vars
    /\ [](IsPrefix(Listed, DirsUnder(remote[repo], "", 1)))
    /\ [](Len(stack) <= Len(Listed) + 1)
    /\ [](pc = "aggregate" => Listed = DirsUnder(remote[repo], "", 1))

C17_Witness ==
    /\ pc = "aggregate"
    /\ remote[repo] = ChainTree(MaxDepth)
    /\ Len(Listed) = MaxDepth
    /\ Len(repo_results) = MaxDepth + 1

\* the number of '/' in a URL, and the text between the (n-1)th and the
\* nth of them
Separators(url) == Cardinality({i \in 1..Len(url) : url[i] = "/"})
SegmentAt(url, n) ==
    LET at == {i \in 1..Len(url) :
                /\ url[i] # "/"
                /\ Cardinality({j \in 1..(i - 1) : url[j] = "/"}) = n - 1}
    IN IF at = {} THEN "" ELSE url[CHOOSE i \in at : TRUE]

\* C18: once process has taken up an input URL, either the URL has fewer
\* than 5 segments and process has panicked on it with no call made for it
\* and nothing returned, or owner and repo are its 4th and 5th segments
\* (ownerA and repoA for https://github.com/ownerA/repoA).
C18_ShortUrlIsFatal ==
    (idx <= Len(target_repos) /\ pc # "loop")
        => LET url == target_repos[idx] IN
           /\ Separators(url) + 1 < 5
                => /\ pc = "panic"
                   /\ events = <<>>
                   /\ returned = None
                   /\ ~ENABLED Next
           /\ Separators(url) + 1 >= 5
                => /\ owner = SegmentAt(url, 4)
                   /\ repo = SegmentAt(url, 5)
           /\ url = UrlA => owner = "ownerA" /\ repo = "repoA"

C18_Witness ==
    /\ pc = "panic"
    /\ idx = 2
    /\ target_repos[idx] = UrlShort
    /\ events = <<>>
    /\ all_results # <<>>

\* C19: every call of get_bytecode is for a file name that ends with .sol,
\* the contract identifier given to `forge inspect` is that name without
\* its last four characters (so identifier + ".sol" is the name again), and
\* the unwrap of strip_suffix never panics.
C19_StripSuffixNeverPanics ==
    /\ \A e \in Range(events) :
          e.op = "inspect"
            => /\ HasSuffix(e.file, DOT_SOL)
               /\ e.arg \o DOT_SOL = e.file
               /\ Len(e.arg) = Len(e.file) - 4
    /\ pc # "panic"

\* A.sol.sol is inspected as A.sol: only the final suffix is removed
C19_Witness ==
    \E e \in Range(events) :
        /\ e.op = "inspect"
        /\ e.file = A_sol \o DOT_SOL
        /\ e.arg = A_sol

\* C20: process sends one root listing request per repository; the body of
\* that response is read and decoded only after the clone and the compile
\* of the repository (and after the pre-clean, when there is one), while
\* the response is held unread through those steps; a malformed root body
\* therefore stops process in a state where the workspace exists.
C20_OneRootRequestDecodedLate ==
    LET roots == {k \in Positions("list") : events[k].arg = ""}
        texts == Positions("text")
    IN  /\ Cardinality(roots) <= 1
        /\ Cardinality(texts) <= 1
        /\ pc \in {"preclean", "clone", "compile", "text"}
              => /\ response # None
                 /\ roots # {}
                 /\ texts = {}
        /\ \A t \in texts :
              /\ \E r \in roots : r < t /\ events[r].out = "sent"
              /\ \E c \in Positions("clone") :
                    /\ c < t
                    /\ events[c].out = "ok"
                    /\ \A r \in roots : r < c
                    /\ \A d \in Positions("delete") :
                          events[d].arg = "pre" => d < c
              /\ \E m \in Positions("compile") :
                    /\ m < t
                    /\ events[m].out # "spawn_err"
                    /\ \A c \in Positions("clone") : c < m
              /\ events[t].out = "malformed"
                    => /\ pc = "panic"
                       /\ repo \in workspaces
                       /\ stack = <<>>

\* a pre-cleaned, cloned and compiled repository whose root body is malformed
C20_Witness ==
    /\ LastIs("text", "", "malformed")
    /\ pc = "panic"
    /\ repo \in workspaces
    /\ HasEvent("delete", "pre", "ok")
    /\ HasOp("compile")
====
